---- MODULE Spec2Model ----
(***************************************************************************)
(* Model of pip's importlib metadata environment,                          *)
(* src/pip/_internal/metadata/importlib/_envs.py.                          *)
(*                                                                         *)
(* One discovery pass of Environment._iter_distributions is a generator;   *)
(* here it is a state machine whose program counter pc is the place the    *)
(* generator is suspended at or running from.  The consumer is either a    *)
(* full iteration (mode = "iter") or Environment.get_distribution          *)
(* (mode = "get"), which stops pulling at its first match.                 *)
(*                                                                         *)
(* Strings that the code transforms (package names, lines of an egg-link   *)
(* file, paths) are sequences of one-character strings, so that            *)
(* canonicalize_name, str.strip and Path.joinpath are computed.            *)
(* The filesystem and the two metadata backends are inputs: Init draws     *)
(* them from bounded families, and no action changes them ("filesystem     *)
(* state is assumed stable for the duration of one discovery pass").       *)
(* Operating-system failures of open/scandir/iterdir are not modelled;     *)
(* the one failure the code handles, zipimport.ZipImportError, is.         *)
(***************************************************************************)
EXTENDS Naturals, Sequences, FiniteSets

VARIABLES
    paths,        \* Environment._paths
    fs,           \* the filesystem and what the backends report for it
    mode,         \* "iter": iterate everything; "get": get_distribution(qname)
    qname,        \* the name passed to get_distribution
    found_names,  \* _DistributionFinder._found_names
    li,           \* index in paths of the location of the for loop (line 152)
    pc,           \* where the generator stands
    ci,           \* index of the next child of the scandir/iterdir loop
    cur,          \* the dists the innermost backend iterator has still to give
    tgt,          \* the search root of the running _find_impl
    out,          \* the Records handed to the consumer so far, in order
    result,       \* what the consumer's call has returned
    log,          \* every filesystem or backend access made, in order
    pass,         \* how many passes over this Environment were started
    prev,         \* mode, qname, out, result and log of the pass before
    made,         \* how the Environment was built, and sys.path at that time
    open_handles  \* the os.scandir iterators that are open

vars == <<paths, fs, mode, qname, found_names, li, pc, ci, cur, tgt, out,
          result, log, pass, prev, made, open_handles>>

\* what a running pass leaves alone: the Environment, the filesystem and
\* the call that started the pass
call == <<paths, fs, made, mode, qname, pass, prev>>

------------------------------------------------------------------------------
(* Bounds *)

MaxLocs == 2

MaxLines == 2

\* sys.path holds at most this many locations when the Environment is built
\* from it
MaxAmbient == 1

------------------------------------------------------------------------------
(* Strings *)

\* Optional[BasePath] = None
NoPath == << >>

\* the characters "[-_.]" of canonicalize_name's regular expression
IsSeparator(c) == c \in {"-", "_", "."}

\* str.lower on the letters the names here use
Lower(c) ==
    CASE c = "A" -> "a"
      [] c = "B" -> "b"
      [] c = "C" -> "c"
      [] OTHER -> c

RECURSIVE DropSeparators(_)
DropSeparators(s) ==
    IF s # << >> /\ IsSeparator(Head(s)) THEN DropSeparators(Tail(s)) ELSE s

\* packaging.utils.canonicalize_name: re.sub(r"[-_.]+", "-", name).lower()
RECURSIVE canonicalize_name(_)
canonicalize_name(s) ==
    IF s = << >> THEN << >>
    ELSE IF IsSeparator(Head(s))
         THEN <<"-">> \o canonicalize_name(DropSeparators(Tail(s)))
         ELSE <<Lower(Head(s))>> \o canonicalize_name(Tail(s))

\* the characters str.strip() removes
IsSpace(c) == c \in {" ", "\t", "\n"}

RECURSIVE LStrip(_)
LStrip(s) == IF s # << >> /\ IsSpace(Head(s)) THEN LStrip(Tail(s)) ELSE s

RECURSIVE RStrip(_)
RStrip(s) ==
    IF s # << >> /\ IsSpace(s[Len(s)]) THEN RStrip(SubSeq(s, 1, Len(s) - 1))
    ELSE s

\* line.strip() (line 81)
Strip(s) == RStrip(LStrip(s))

\* A faulty variant of FirstNonEmpty: the first line of the file, blank or not.
FirstLineOnly(lines) == IF lines = << >> THEN << >> ELSE Strip(Head(lines))

\* next((line for line in lines if line), "") over the stripped lines
\* (lines 81-82); "" is << >>.
RECURSIVE FirstNonEmpty(_)
FirstNonEmpty(lines) ==
    IF lines = << >> THEN << >>
    ELSE IF Strip(Head(lines)) # << >> THEN Strip(Head(lines))
         ELSE FirstNonEmpty(Tail(lines))

IsAbsolute(p) == p # << >> /\ Head(p) = "/"

\* A faulty variant of JoinPath: the target as written, which the OS resolves
\* against the current working directory.
JoinCwd(path, rel) == rel

\* str(pathlib.Path(location).joinpath(target_rel)) (lines 74, 85): an
\* absolute argument replaces the path, a relative one is appended to it.
JoinPath(path, rel) ==
    IF IsAbsolute(rel) THEN rel ELSE path \o <<"/">> \o rel

\* the index of the last "/" of p (0: none)
RECURSIVE LastSlash(_)
LastSlash(p) ==
    IF p = << >> THEN 0
    ELSE IF p[Len(p)] = "/" THEN Len(p)
         ELSE LastSlash(SubSeq(p, 1, Len(p) - 1))

\* info_location.parent (line 62)
Parent(p) ==
    IF LastSlash(p) <= 1 THEN SubSeq(p, 1, LastSlash(p))
    ELSE SubSeq(p, 1, LastSlash(p) - 1)

------------------------------------------------------------------------------
(* The inputs: names, locations, directory children, backend results *)

NameA1 == <<"A", "_", ".", "b">>
NameA2 == <<"a", "-", "b">>
NameC  == <<"c">>

RawNames == {NameA1, NameA2, NameC}

\* the names get_distribution is asked for
QueryNames == {NameA1, NameC}

LocPool == << <<"/", "s">>, <<"/", "u">>, <<"/", "v">>, <<"/", "w">> >>

Loc(i) == LocPool[i]

\* what an egg-link may point to: a relative and an absolute path
RelTarget == <<"d">>
AbsTarget == <<"/", "d">>

\* a dist of the standard-metadata backend found under root, with the
\* metadata directory it reports (get_info_location), or none
Dist(n, root) == [name |-> n, info |-> root \o <<"/", "m">>]
DistNoInfo(n) == [name |-> n, info |-> NoPath]

\* a dist of the pkg_resources backend
EggDist(n) == [name |-> n, info |-> NoPath]

\* directory children
EggEntry(ds)    == [suffix |-> ".egg", dists |-> ds, lines |-> << >>]
LinkEntry(ls)   == [suffix |-> ".egg-link", dists |-> << >>, lines |-> ls]
OtherEntry      == [suffix |-> ".txt", dists |-> << >>, lines |-> << >>]

\* lines of an egg-link file, as iterating the open file gives them
LineEmpty == <<"\n">>
LineBlank == <<" ", "\t", "\n">>
LineRel   == <<" ", "d", "\n">>
LineAbs   == <<"/", "d", " ", "\n">>

RawLines == {LineEmpty, LineBlank, LineRel, LineAbs}

\* the sequences of at most n elements of S
RECURSIVE SeqsUpTo(_, _)
SeqsUpTo(S, n) ==
    IF n = 0 THEN {<< >>}
    ELSE LET shorter == SeqsUpTo(S, n - 1)
         IN  shorter \cup {Append(s, x) : s \in shorter, x \in S}

LineSeqs == SeqsUpTo(RawLines, MaxLines)


\* what importlib.metadata.distributions(path=[p]) may report for a location
StdChoices(p) ==
    { << >>,
      <<DistNoInfo(NameA1)>>,
      <<Dist(NameC, p), Dist(NameA2, p)>> }

\* what a directory location may hold
ChildChoices ==
    { << >>,
      <<EggEntry(<<EggDist(NameA2)>>)>>,
      <<LinkEntry(<<LineRel>>)>>,
      <<EggEntry(<<EggDist(NameC)>>), OtherEntry, LinkEntry(<<LineAbs>>)>> }

\* A location: a directory, a zip archive, a file that passes
\* zipfile.is_zipfile and that zipimport cannot open, or nothing at all.
LocFixtures(p) ==
    {[kind |-> "dir", std |-> s, children |-> c, zipeggs |-> << >>] :
        s \in StdChoices(p), c \in ChildChoices}
    \cup
    {[kind |-> "zip", std |-> << >>, children |-> << >>,
      zipeggs |-> <<EggDist(NameA2)>>],
     [kind |-> "zip", std |-> <<Dist(NameA1, p)>>, children |-> << >>,
      zipeggs |-> <<EggDist(NameC), EggDist(NameA2)>>],
     [kind |-> "badzip", std |-> << >>, children |-> << >>, zipeggs |-> << >>],
     [kind |-> "none", std |-> << >>, children |-> << >>, zipeggs |-> << >>]}

\* A directory whose first egg-link file has any content of at most
\* MaxLines lines, alone or beside other children.
LinkFixtures(p) ==
    {[kind |-> "dir", std |-> <<Dist(NameC, p)>>, children |-> c,
      zipeggs |-> << >>] :
        c \in UNION {{ <<LinkEntry(ls)>>,
                       <<LinkEntry(ls), LinkEntry(<<LineAbs>>)>>,
                       <<OtherEntry, LinkEntry(ls)>>,
                       <<EggEntry(<<EggDist(NameA2)>>), LinkEntry(ls)>> } :
                     ls \in LineSeqs}}

LocSet(n) == {Loc(i) : i \in 1..n}

IndexOf(p) == CHOOSE i \in 1..Len(LocPool) : Loc(i) = p

\* what the standard-metadata backend reports for the directories an
\* egg-link may point to: the absolute target, the target under a location,
\* and the directory of that name under the current working directory
TargetStd(p) ==
    IF p = AbsTarget
    THEN <<Dist(NameA1, p), Dist(NameC, p), Dist(NameA2, p)>>
    ELSE IF p = RelTarget THEN <<Dist(NameC, p)>>
    ELSE <<DistNoInfo(NameA2)>>

TargetSet(n) ==
    {AbsTarget, RelTarget} \cup {Loc(i) \o <<"/">> \o RelTarget : i \in 1..n}

\* the filesystem of n locations, location i built from fixture fx[i]
FsOf(n, fx) ==
    [kind     |-> [p \in LocSet(n) |-> fx[IndexOf(p)].kind],
     children |-> [p \in LocSet(n) |-> fx[IndexOf(p)].children],
     zipeggs  |-> [p \in LocSet(n) |-> fx[IndexOf(p)].zipeggs],
     std      |-> [p \in LocSet(n) \cup TargetSet(n) |->
                      IF p \in LocSet(n) THEN fx[IndexOf(p)].std
                      ELSE TargetStd(p)]]

------------------------------------------------------------------------------
(* What the code reads of the filesystem *)

\* os.path.isdir(location) (line 121), path.is_dir() (line 75)
IsDir(p) == p \in DOMAIN fs.kind /\ fs.kind[p] = "dir"

\* zipfile.is_zipfile(location) (line 123)
IsZipFile(p) == p \in DOMAIN fs.kind /\ fs.kind[p] \in {"zip", "badzip"}

\* zipimport.zipimporter(location) does not raise ZipImportError (line 107)
ZipImporterOpens(p) == p \in DOMAIN fs.kind /\ fs.kind[p] = "zip"

\* os.scandir(location) (line 94), path.iterdir() (line 77)
ChildrenOf(p) == IF p \in DOMAIN fs.children THEN fs.children[p] ELSE << >>

\* importlib.metadata.distributions(path=[location]) (line 45)
StdAt(p) == IF p \in DOMAIN fs.std THEN fs.std[p] ELSE << >>

\* find_eggs_in_zip(importer, location) (line 110)
ZipEggsOf(p) == IF p \in DOMAIN fs.zipeggs THEN fs.zipeggs[p] ELSE << >>

------------------------------------------------------------------------------
(* The state after construction *)

Pending == [kind |-> "pending", rec |-> << >>]

NoPass == [mode |-> "none", qname |-> << >>, out |-> << >>,
           result |-> Pending, log |-> << >>]

\* A faulty variant of FromPaths: an empty list is taken for no list.
FromPathsFalsy(arg, sys_path) ==
    IF arg = << >> \/ arg[1] = << >> THEN sys_path ELSE arg[1]

\* Environment.from_paths(paths) (lines 144-148): the list the Environment
\* keeps; arg is << >> for None and <<list>> for a list
FromPaths(arg, sys_path) ==
    IF arg = << >> THEN sys_path ELSE arg[1]

\* Environment.default() (lines 140-142)
Default(sys_path) == sys_path

\* sys.path when the Environment is built from an explicit list
OtherAmbient == <<Loc(Len(LocPool))>>

\* the ways to build an Environment over the list lst
Constructions(lst) ==
    {[ctor |-> "from_paths", arg |-> <<lst>>, sys_path |-> OtherAmbient]}
    \cup
    IF Len(lst) <= MaxAmbient
    THEN {[ctor |-> "from_paths", arg |-> << >>, sys_path |-> lst],
          [ctor |-> "default", arg |-> << >>, sys_path |-> lst]}
    ELSE {}

Init ==
    /\ \E n \in 0..MaxLocs :
          /\ \E m \in Constructions([i \in 1..n |-> Loc(i)]) :
                /\ made = m
                /\ paths = IF m.ctor = "default" THEN Default(m.sys_path)
                           ELSE FromPaths(m.arg, m.sys_path)
          /\ \/ \E fx \in [1..n -> UNION {LocFixtures(Loc(i)) : i \in 1..n}] :
                   /\ \A i \in 1..n : fx[i] \in LocFixtures(Loc(i))
                   /\ fs = FsOf(n, fx)
             \/ /\ n = 1
                /\ \E f \in LinkFixtures(Loc(1)) : fs = FsOf(1, <<f>>)
    /\ mode = "none"
    /\ qname = << >>
    /\ pass = 0
    /\ prev = NoPass
    /\ open_handles = {}
    /\ found_names = {}
    /\ li = 1
    /\ pc = "idle"
    /\ ci = 1
    /\ cur = << >>
    /\ tgt = NoPath
    /\ out = << >>
    /\ result = Pending
    /\ log = << >>


------------------------------------------------------------------------------
(* Records and the consumer *)

\* A faulty variant of Strategies: egg-links resolved before eggs.
StrategiesLinkedFirst == <<"find", "linked", "eggs">>

\* The body of the for loop of _iter_distributions (lines 153-158):
\* finder.find, then finder.find_eggs, then finder.find_linked.
Strategies == <<"find", "eggs", "linked">>

StrategyIndex(s) == CHOOSE k \in 1..Len(Strategies) : Strategies[k] = s

\* Distribution(dist, info_location, installed_location) (lines 63, 87) and
\* legacy.Distribution(dist) (lines 99, 111), with the place of the pass
\* that produced it: the strategy, the index of the location being scanned,
\* the search root handed to the backend and the number of accesses made
\* before it was yielded.  canonical_name is the property get_distribution
\* compares (line 164).
Record(strategy, dist, installed) ==
    [strategy           |-> strategy,
     name               |-> dist.name,
     canonical_name     |-> canonicalize_name(dist.name),
     info_location      |-> dist.info,
     installed_location |-> installed,
     li                 |-> li,
     root               |-> tgt,
     at                 |-> Len(log)]

\* A faulty variant of FindInstalledLocation: the metadata directory itself.
FindInstalledLocationSelf(info_location) == info_location

\* installed_location of find (lines 59-62)
FindInstalledLocation(info_location) ==
    IF info_location = NoPath THEN NoPath ELSE Parent(info_location)

\* A faulty variant of LinkedInstalledLocation: the rule of find.
LinkedInstalledLocationAsFind(path, info_location) ==
    FindInstalledLocation(info_location)

\* installed_location of find_linked (line 87): path, whatever the dist
LinkedInstalledLocation(path, info_location) == path

\* A faulty variant of Matches: the names compared as written.
MatchesRaw(rec, name) == rec.name = name

\* distribution.canonical_name == canonicalize_name(name) (line 164)
Matches(rec, name) == rec.canonical_name = canonicalize_name(name)

\* A faulty variant of Seen: nothing is ever taken as found.
SeenNever(n) == FALSE

\* A faulty variant of Seen: any name found makes the handle a duplicate.
SeenAny(n) == found_names # {}

\* normalized_name in self._found_names (line 47)
Seen(n) == n \in found_names

\* A faulty variant of AddName: the set is replaced by the new name.
AddNameOnly(n) == {n}

\* self._found_names.add(normalized_name) (line 49)
AddName(n) == found_names \cup {n}

\* A faulty variant of EggFoundNames: the name of an egg is memoized too.
EggFoundNamesAdded(n) == found_names \cup {n}

\* _found_names after an egg's dist was yielded: find_eggs and its
\* sub-scans have no statement on it (lines 98-99, 110-111)
EggFoundNames(n) == found_names

\* A faulty variant of NextDefault: next(matches) without a default.
NextNoDefault == [kind |-> "StopIteration", rec |-> << >>]

\* next(matches, None) on an exhausted stream (line 166)
NextDefault == [kind |-> "None", rec |-> << >>]

\* A faulty variant of Resume: the consumer drains the stream after its match.
ResumeAlways(rec) == pc

\* Where control is after rec was yielded: get_distribution returns at its
\* first match and the generator is never resumed (lines 161-166); any
\* other consumer pulls again.
Resume(rec) ==
    IF mode = "get" /\ Matches(rec, qname) THEN "done" ELSE pc

\* rec is yielded to the consumer
Deliver(rec) ==
    /\ out' = Append(out, rec)
    /\ result' = IF mode = "get" /\ result.kind = "pending"
                    /\ Matches(rec, qname)
                 THEN [kind |-> "record", rec |-> <<rec>>]
                 ELSE result
    /\ pc' = Resume(rec)

\* the iterator os.scandir(location) gives to the running pass (line 94)
ScandirHandle == [pass |-> pass, li |-> li]

\* an access made while child ci of the location is handled (0: none)
Access(op, path, strategy, child) ==
    [op |-> op, path |-> path, li |-> li, strategy |-> strategy,
     child |-> child]

\* the strategy s of the current location ends: the next one starts, or
\* the for loop of line 152 takes the next location
StrategyDone(s) ==
    IF StrategyIndex(s) < Len(Strategies)
    THEN pc' = Strategies[StrategyIndex(s) + 1] /\ li' = li
    ELSE pc' = "loop" /\ li' = li + 1

------------------------------------------------------------------------------
(* The calls on the Environment *)

\* A faulty variant of NewFinder: the names found by the pass before are kept, as
\* if the finder were shared by the passes.
SharedFinder == found_names

\* finder = _DistributionFinder() (line 151, lines 34-35)
NewFinder == {}

\* a call starts a pass: _iter_distributions runs to its first statement
\* with a finder of its own; the pass before, if any, is abandoned
StartPass ==
    /\ found_names' = NewFinder
    /\ li' = 1
    /\ pc' = "loop"
    /\ ci' = 1
    /\ cur' = << >>
    /\ tgt' = NoPath
    /\ out' = << >>
    /\ result' = Pending
    /\ log' = << >>
    /\ pass' = pass + 1
    /\ prev' = [mode |-> mode, qname |-> qname, out |-> out,
                result |-> result, log |-> log]
    /\ UNCHANGED <<paths, fs, made, open_handles>>

\* the caller iterates over every distribution: the first call on the
\* Environment, or a second one after a call that has returned
IterAllDistributions ==
    /\ \/ pc = "idle"
       \/ pc = "done" /\ pass = 1
    /\ mode' = "iter"
    /\ qname' = << >>
    /\ StartPass

\* get_distribution(name) (lines 160-166), the first call
GetDistribution ==
    /\ pc = "idle"
    /\ mode' = "get"
    /\ \E name \in QueryNames : qname' = name
    /\ StartPass

------------------------------------------------------------------------------
(* Environment._iter_distributions (lines 150-158) *)

\* for location in self._paths: the body starts
LocationStart ==
    /\ pc = "loop"
    /\ li <= Len(paths)
    /\ pc' = Strategies[1]
    /\ UNCHANGED <<call, open_handles, found_names, li, ci, cur, tgt, out,
                   result, log>>

\* the for loop ends: the stream is exhausted
Exhausted ==
    /\ pc = "loop"
    /\ li > Len(paths)
    /\ pc' = "done"
    /\ result' = IF mode = "get" THEN NextDefault
                 ELSE [kind |-> "exhausted", rec |-> << >>]
    /\ UNCHANGED <<call, open_handles, found_names, li, ci, cur, tgt, out,
                   log>>

------------------------------------------------------------------------------
(* _DistributionFinder.find and _find_impl (lines 37-63) *)

\* find(location) calls _find_impl(location), which queries the backend
FindStart ==
    /\ pc = "find"
    /\ pc' = "find_impl"
    /\ tgt' = paths[li]
    /\ cur' = StdAt(paths[li])
    /\ log' = Append(log, Access("distributions", paths[li], "find", 0))
    /\ UNCHANGED <<call, open_handles, found_names, li, ci, out, result>>

\* _find_impl: a dist whose name is in _found_names (lines 47-48)
ImplSkip ==
    /\ pc \in {"find_impl", "linked_impl"}
    /\ cur # << >>
    /\ Seen(canonicalize_name(Head(cur).name))
    /\ cur' = Tail(cur)
    /\ UNCHANGED <<call, open_handles, found_names, li, pc, ci, tgt, out,
                   result, log>>

\* _find_impl yields a dist (lines 49-51) and find wraps it (lines 59-63)
FindYield ==
    /\ pc = "find_impl"
    /\ cur # << >>
    /\ ~Seen(canonicalize_name(Head(cur).name))
    /\ found_names' = AddName(canonicalize_name(Head(cur).name))
    /\ cur' = Tail(cur)
    /\ Deliver(Record("find", Head(cur),
                      FindInstalledLocation(Head(cur).info)))
    /\ UNCHANGED <<call, open_handles, li, ci, tgt, log>>

\* the backend has no more dists for the location
FindEnd ==
    /\ pc = "find_impl"
    /\ cur = << >>
    /\ StrategyDone("find")
    /\ UNCHANGED <<call, open_handles, found_names, ci, cur, tgt, out,
                   result, log>>


------------------------------------------------------------------------------
(* _DistributionFinder.find_eggs (lines 89-124) *)

\* os.path.isdir(location) holds: _find_eggs_in_dir opens os.scandir
EggsDirStart ==
    /\ pc = "eggs"
    /\ IsDir(paths[li])
    /\ pc' = "eggs_dir"
    /\ ci' = 1
    /\ log' = log \o <<Access("isdir", paths[li], "eggs", 0),
                       Access("scandir", paths[li], "eggs", 0)>>
    /\ open_handles' = open_handles \cup {ScandirHandle}
    /\ UNCHANGED <<call, found_names, li, cur, tgt, out,
                   result>>

\* os.path.isdir(location) fails: on to the is_zipfile test
EggsNotDir ==
    /\ pc = "eggs"
    /\ ~IsDir(paths[li])
    /\ pc' = "eggs_zipcheck"
    /\ log' = Append(log, Access("isdir", paths[li], "eggs", 0))
    /\ UNCHANGED <<call, open_handles, found_names, li, ci, cur, tgt, out,
                   result>>

\* an entry whose name does not end with ".egg" (lines 96-97)
EggsSkipEntry ==
    /\ pc = "eggs_dir"
    /\ ci <= Len(ChildrenOf(paths[li]))
    /\ ChildrenOf(paths[li])[ci].suffix # ".egg"
    /\ ci' = ci + 1
    /\ UNCHANGED <<call, open_handles, found_names, li, pc, cur, tgt, out,
                   result, log>>

\* an entry whose name ends with ".egg": find_distributions(entry.path)
EggsOpenEgg ==
    /\ pc = "eggs_dir"
    /\ ci <= Len(ChildrenOf(paths[li]))
    /\ ChildrenOf(paths[li])[ci].suffix = ".egg"
    /\ cur' = ChildrenOf(paths[li])[ci].dists
    /\ tgt' = paths[li]
    /\ ci' = ci + 1
    /\ pc' = "egg_dists"
    /\ log' = Append(log, Access("find_distributions", paths[li], "eggs", ci))
    /\ UNCHANGED <<call, open_handles, found_names, li, out, result>>

\* yield legacy.Distribution(dist) (line 99), passed on by find_eggs
\* (line 122) and by _iter_distributions (lines 154-156); _found_names is
\* neither read nor written
EggYield ==
    /\ pc = "egg_dists"
    /\ cur # << >>
    /\ cur' = Tail(cur)
    /\ Deliver(Record("eggs", Head(cur), NoPath))
    /\ found_names' = EggFoundNames(canonicalize_name(Head(cur).name))
    /\ UNCHANGED <<call, open_handles, li, ci, tgt, log>>

\* find_distributions(entry.path) has no more dists
EggDistsEnd ==
    /\ pc = "egg_dists"
    /\ cur = << >>
    /\ pc' = "eggs_dir"
    /\ UNCHANGED <<call, open_handles, found_names, li, ci, cur, tgt, out,
                   result, log>>

\* os.scandir has no more entries: the with block closes it
EggsDirEnd ==
    /\ pc = "eggs_dir"
    /\ ci > Len(ChildrenOf(paths[li]))
    /\ pc' = "eggs_zipcheck"
    /\ log' = Append(log, Access("close_scandir", paths[li], "eggs", 0))
    /\ open_handles' = open_handles \ {ScandirHandle}
    /\ UNCHANGED <<call, found_names, li, ci, cur, tgt, out,
                   result>>

\* zipfile.is_zipfile(location) fails (line 123): find_eggs ends
ZipNot ==
    /\ pc = "eggs_zipcheck"
    /\ ~IsZipFile(paths[li])
    /\ StrategyDone("eggs")
    /\ log' = Append(log, Access("is_zipfile", paths[li], "eggs", 0))
    /\ UNCHANGED <<call, open_handles, found_names, ci, cur, tgt, out,
                   result>>

\* A faulty variant of OnZipImportError: the error leaves the generator.
ZipImportErrorPropagates == "raise"

\* except zipimport.ZipImportError: return (lines 108-109)
OnZipImportError == "return"

\* zipimport.zipimporter(location) raises ZipImportError (lines 106-109):
\* _find_eggs_in_zip returns, find_eggs ends
ZipOpenFails ==
    /\ pc = "eggs_zipcheck"
    /\ IsZipFile(paths[li])
    /\ ~ZipImporterOpens(paths[li])
    /\ IF OnZipImportError = "return"
       THEN StrategyDone("eggs") /\ result' = result
       ELSE /\ pc' = "done"
            /\ li' = li
            /\ result' = [kind |-> "ZipImportError", rec |-> << >>]
    /\ log' = log \o <<Access("is_zipfile", paths[li], "eggs", 0),
                       Access("zipimporter", paths[li], "eggs", 0)>>
    /\ UNCHANGED <<call, open_handles, found_names, ci, cur, tgt, out>>

\* the importer opens: find_eggs_in_zip(importer, location) (line 110)
ZipOpen ==
    /\ pc = "eggs_zipcheck"
    /\ IsZipFile(paths[li])
    /\ ZipImporterOpens(paths[li])
    /\ pc' = "eggs_zip"
    /\ cur' = ZipEggsOf(paths[li])
    /\ tgt' = paths[li]
    /\ log' = log \o <<Access("is_zipfile", paths[li], "eggs", 0),
                       Access("zipimporter", paths[li], "eggs", 0),
                       Access("find_eggs_in_zip", paths[li], "eggs", 0)>>
    /\ UNCHANGED <<call, open_handles, found_names, li, ci, out, result>>

\* yield legacy.Distribution(dist) (line 111)
ZipYield ==
    /\ pc = "eggs_zip"
    /\ cur # << >>
    /\ cur' = Tail(cur)
    /\ Deliver(Record("eggs", Head(cur), NoPath))
    /\ found_names' = EggFoundNames(canonicalize_name(Head(cur).name))
    /\ UNCHANGED <<call, open_handles, li, ci, tgt, log>>

\* find_eggs_in_zip has no more dists: find_eggs ends
ZipEnd ==
    /\ pc = "eggs_zip"
    /\ cur = << >>
    /\ StrategyDone("eggs")
    /\ UNCHANGED <<call, open_handles, found_names, ci, cur, tgt, out,
                   result, log>>

------------------------------------------------------------------------------
(* _DistributionFinder.find_linked (lines 65-87) *)

\* A faulty variant of PathIsDir: path.exists().
PathExists(p) == p \in DOMAIN fs.kind /\ fs.kind[p] # "none"

\* path.is_dir() (line 75)
PathIsDir(p) == IsDir(p)

\* not path.is_dir(): return (lines 75-76)
LinkedNotDir ==
    /\ pc = "linked"
    /\ ~PathIsDir(paths[li])
    /\ StrategyDone("linked")
    /\ log' = Append(log, Access("is_dir", paths[li], "linked", 0))
    /\ UNCHANGED <<call, open_handles, found_names, ci, cur, tgt, out,
                   result>>

\* path.iterdir() (line 77)
LinkedDirStart ==
    /\ pc = "linked"
    /\ PathIsDir(paths[li])
    /\ pc' = "linked_dir"
    /\ ci' = 1
    /\ log' = log \o <<Access("is_dir", paths[li], "linked", 0),
                       Access("iterdir", paths[li], "linked", 0)>>
    /\ UNCHANGED <<call, open_handles, found_names, li, cur, tgt, out,
                   result>>

\* a child whose suffix is not ".egg-link" (lines 78-79)
LinkedSkipChild ==
    /\ pc = "linked_dir"
    /\ ci <= Len(ChildrenOf(paths[li]))
    /\ ChildrenOf(paths[li])[ci].suffix # ".egg-link"
    /\ ci' = ci + 1
    /\ UNCHANGED <<call, open_handles, found_names, li, pc, cur, tgt, out,
                   result, log>>

\* an egg-link file is opened, read and closed (lines 80-82); it has no
\* non-empty line (lines 83-84)
LinkedNoTarget ==
    /\ pc = "linked_dir"
    /\ ci <= Len(ChildrenOf(paths[li]))
    /\ ChildrenOf(paths[li])[ci].suffix = ".egg-link"
    /\ FirstNonEmpty(ChildrenOf(paths[li])[ci].lines) = << >>
    /\ ci' = ci + 1
    /\ log' = log \o <<Access("open", paths[li], "linked", ci),
                       Access("close", paths[li], "linked", ci)>>
    /\ UNCHANGED <<call, open_handles, found_names, li, pc, cur, tgt, out,
                   result>>

\* an egg-link file is opened, read and closed; its target is joined to
\* the location and handed to _find_impl (lines 85-86)
LinkedTarget ==
    /\ pc = "linked_dir"
    /\ ci <= Len(ChildrenOf(paths[li]))
    /\ ChildrenOf(paths[li])[ci].suffix = ".egg-link"
    /\ FirstNonEmpty(ChildrenOf(paths[li])[ci].lines) # << >>
    /\ LET target_location ==
               JoinPath(paths[li],
                        FirstNonEmpty(ChildrenOf(paths[li])[ci].lines))
       IN  /\ tgt' = target_location
           /\ cur' = StdAt(target_location)
           /\ log' = log \o <<Access("open", paths[li], "linked", ci),
                              Access("close", paths[li], "linked", ci),
                              Access("distributions", target_location,
                                     "linked", ci)>>
    /\ ci' = ci + 1
    /\ pc' = "linked_impl"
    /\ UNCHANGED <<call, open_handles, found_names, li, out, result>>

\* _find_impl yields a dist (lines 49-51) and find_linked wraps it (line 87)
LinkedYield ==
    /\ pc = "linked_impl"
    /\ cur # << >>
    /\ ~Seen(canonicalize_name(Head(cur).name))
    /\ found_names' = AddName(canonicalize_name(Head(cur).name))
    /\ cur' = Tail(cur)
    /\ Deliver(Record("linked", Head(cur),
                      LinkedInstalledLocation(paths[li], Head(cur).info)))
    /\ UNCHANGED <<call, open_handles, li, ci, tgt, log>>

\* the backend has no more dists for the target
LinkedImplEnd ==
    /\ pc = "linked_impl"
    /\ cur = << >>
    /\ pc' = "linked_dir"
    /\ UNCHANGED <<call, open_handles, found_names, li, ci, cur, tgt, out,
                   result, log>>

\* path.iterdir() has no more children: find_linked ends
LinkedEnd ==
    /\ pc = "linked_dir"
    /\ ci > Len(ChildrenOf(paths[li]))
    /\ StrategyDone("linked")
    /\ UNCHANGED <<call, open_handles, found_names, ci, cur, tgt, out,
                   result, log>>

\* An abandoned generator is finalized: the with block of line 94 is left
\* and the scandir iterator closed. The code never closes the generator it
\* stops pulling from (line 166), so this happens when the runtime collects
\* it: at once, later, or not before the next pass.
GeneratorFinalized ==
    /\ \E h \in open_handles : h.pass < pass \/ pc = "done"
    /\ open_handles' = {h \in open_handles : ~(h.pass < pass \/ pc = "done")}
    /\ UNCHANGED <<call, found_names, li, pc, ci, cur, tgt, out, result,
                   log>>

------------------------------------------------------------------------------

Next ==
    \/ IterAllDistributions
    \/ GetDistribution
    \/ LocationStart
    \/ Exhausted
    \/ FindStart
    \/ ImplSkip
    \/ FindYield
    \/ FindEnd
    \/ EggsDirStart
    \/ EggsNotDir
    \/ EggsSkipEntry
    \/ EggsOpenEgg
    \/ EggYield
    \/ EggDistsEnd
    \/ EggsDirEnd
    \/ ZipNot
    \/ ZipOpenFails
    \/ ZipOpen
    \/ ZipYield
    \/ ZipEnd
    \/ LinkedNotDir
    \/ LinkedDirStart
    \/ LinkedSkipChild
    \/ LinkedNoTarget
    \/ LinkedTarget
    \/ LinkedYield
    \/ LinkedImplEnd
    \/ LinkedEnd
    \/ GeneratorFinalized

Spec == Init /\ [][Next]_vars


------------------------------------------------------------------------------
(* Vocabulary of the properties *)

\* a pass of iterateAll() that was consumed to its end
FullPass == mode = "iter" /\ pc = "done"

\* the canonical names the standard-metadata backend reports under p
StdNamesAt(p) ==
    {canonicalize_name(StdAt(p)[k].name) : k \in 1..Len(StdAt(p))}

\* the canonical names the legacy backend reports for location p
EggNamesAt(p) ==
    IF IsDir(p)
    THEN UNION {{canonicalize_name(ChildrenOf(p)[c].dists[k].name) :
                    k \in 1..Len(ChildrenOf(p)[c].dists)} :
                c \in {c \in 1..Len(ChildrenOf(p)) :
                          ChildrenOf(p)[c].suffix = ".egg"}}
    ELSE IF ZipImporterOpens(p)
         THEN {canonicalize_name(ZipEggsOf(p)[k].name) :
                  k \in 1..Len(ZipEggsOf(p))}
         ELSE {}

HasEggLink(p) ==
    \E c \in 1..Len(ChildrenOf(p)) : ChildrenOf(p)[c].suffix = ".egg-link"

\* the precedence of the strategies within one location
StrategyRank(s) ==
    CASE s = "find" -> 1
      [] s = "eggs" -> 2
      [] s = "linked" -> 3

------------------------------------------------------------------------------
(* C1 *)

\* C1: a fully consumed iterateAll() pass yields at most one Record per
\* normalized name, over all locations and all three strategies.
C1_OneRecordPerName ==
    FullPass =>
        \A i, j \in 1..Len(out) :
            out[i].canonical_name = out[j].canonical_name => i = j

------------------------------------------------------------------------------
(* C2 *)

\* C2: when one location holds a name both as standard metadata and as an
\* egg, no egg Record of that name is yielded for the location.
C2_StandardOutranksEgg ==
    FullPass =>
        \A i \in 1..Len(out) :
            out[i].strategy = "eggs" =>
                out[i].canonical_name \notin StdNamesAt(paths[out[i].li])

------------------------------------------------------------------------------
(* C3 *)

\* C3: for locations [L1, L2] where L1 holds P only as an egg and L2 holds
\* P as standard metadata, the pass yields the egg Record of L1 for P and
\* does not yield the standard-metadata Record of L2.
C3_EarlierEggOutranksLaterStandard ==
    (FullPass /\ Len(paths) >= 2) =>
        \A n \in EggNamesAt(paths[1]) :
            (/\ n \notin StdNamesAt(paths[1])
             /\ ~HasEggLink(paths[1])
             /\ n \in StdNamesAt(paths[2]))
            => /\ \E i \in 1..Len(out) :
                     /\ out[i].strategy = "eggs"
                     /\ out[i].li = 1
                     /\ out[i].canonical_name = n
               /\ ~\E j \in 1..Len(out) :
                     /\ out[j].strategy = "find"
                     /\ out[j].li = 2
                     /\ out[j].canonical_name = n

------------------------------------------------------------------------------
(* C4 *)

\* C4: no two Records yielded by the standard-metadata and linked-checkout
\* scans of one pass have the same normalized name; and get_distribution of
\* a name that the first location holds as standard metadata returns that
\* Record, and no linked-checkout Record of the name is yielded.
C4_StandardAndLinkedShareSeenNames ==
    /\ \A i, j \in 1..Len(out) :
          (/\ i < j
           /\ out[i].strategy \in {"find", "linked"}
           /\ out[j].strategy \in {"find", "linked"})
          => out[i].canonical_name # out[j].canonical_name
    /\ (/\ mode = "get"
        /\ pc = "done"
        /\ Len(paths) >= 1
        /\ canonicalize_name(qname) \in StdNamesAt(paths[1]))
       => /\ result.kind = "record"
          /\ result.rec[1].strategy = "find"
          /\ result.rec[1].root = paths[1]
          /\ \A i \in 1..Len(out) :
                out[i].strategy = "linked"
                => out[i].canonical_name # canonicalize_name(qname)

\* A full pass in which an egg-link's target held a name that the
\* standard-metadata scan of an earlier location had yielded.
C4_Witness ==
    /\ FullPass
    /\ \E i \in 1..Len(out), e \in 1..Len(log) :
          /\ out[i].strategy = "find"
          /\ log[e].op = "distributions"
          /\ log[e].strategy = "linked"
          /\ log[e].li > out[i].li
          /\ out[i].canonical_name \in StdNamesAt(log[e].path)

------------------------------------------------------------------------------
(* C5 *)

\* C5: in the stream, a Record of an earlier location precedes every
\* Record of a later one, and within a location standard-metadata Records
\* precede egg Records, which precede linked-checkout Records.
C5_StreamOrdering ==
    /\ \A i, j \in 1..Len(out) :
          i < j =>
             \/ out[i].li < out[j].li
             \/ /\ out[i].li = out[j].li
                /\ StrategyRank(out[i].strategy)
                      <= StrategyRank(out[j].strategy)
    /\ \A i \in 1..Len(out) :
          out[i].strategy \in {"find", "eggs"}
          => out[i].root = paths[out[i].li]

\* A full pass whose first location gave a Record by each strategy and
\* whose second location gave one too.
C5_Witness ==
    /\ FullPass
    /\ \E i, j, k, m \in 1..Len(out) :
          /\ out[i].strategy = "find" /\ out[i].li = 1
          /\ out[j].strategy = "eggs" /\ out[j].li = 1
          /\ out[k].strategy = "linked" /\ out[k].li = 1
          /\ out[m].li = 2


------------------------------------------------------------------------------
(* C6 *)

\* the places of the Records of stream whose canonical name is that of name
MatchesIn(stream, name) ==
    {i \in 1..Len(stream) :
        stream[i].canonical_name = canonicalize_name(name)}

\* C6: get_distribution(name) returns the first Record of the iterateAll()
\* stream whose normalized name is the normalized name, and None when the
\* stream has none; it never ends with StopIteration.  The stream is that
\* of a full pass made after the call has returned.
C6_GetReturnsFirstMatch ==
    /\ (mode = "get" /\ pc = "done") => result.kind \in {"record", "None"}
    /\ (pass = 2 /\ FullPass /\ prev.mode = "get") =>
          IF MatchesIn(out, prev.qname) = {}
          THEN prev.result.kind = "None"
          ELSE /\ prev.result.kind = "record"
               /\ \E i \in MatchesIn(out, prev.qname) :
                     /\ \A j \in MatchesIn(out, prev.qname) : i <= j
                     /\ prev.result.rec = <<out[i]>>

\* get_distribution has returned a Record whose name is not written as the
\* name asked for and which is not the first of the stream, and the full
\* pass made afterwards has yielded Records past it.
C6_Witness ==
    /\ pass = 2
    /\ FullPass
    /\ prev.mode = "get"
    /\ prev.result.kind = "record"
    /\ prev.result.rec[1].name # prev.qname
    /\ Len(prev.out) >= 2
    /\ Len(out) > Len(prev.out)

------------------------------------------------------------------------------
(* C7 *)

\* e is an access of the scan up to and including the strategy that
\* yielded rec
NotAfter(e, rec) ==
    \/ e.li < rec.li
    \/ /\ e.li = rec.li
       /\ StrategyRank(e.strategy) <= StrategyRank(rec.strategy)

\* C7: once get_distribution has its match, the pass is over: the match is
\* the last Record produced, no access was made to a later location or by
\* a later strategy, and the accesses made are exactly those a full pass
\* makes before it yields that Record.
C7_ShortCircuit ==
    /\ (mode = "get" /\ result.kind = "record") =>
          /\ pc = "done"
          /\ out # << >>
          /\ result.rec = <<out[Len(out)]>>
          /\ \A e \in 1..Len(log) : NotAfter(log[e], result.rec[1])
          /\ Len(log) = result.rec[1].at
    /\ (pass = 2 /\ FullPass /\ prev.mode = "get"
        /\ prev.result.kind = "record") =>
          /\ Len(prev.out) <= Len(out)
          /\ prev.out = SubSeq(out, 1, Len(prev.out))
          /\ prev.log = SubSeq(log, 1, out[Len(prev.out)].at)

\* get_distribution has found its name by the standard-metadata scan of
\* the first of two locations, which also holds an egg; the second
\* location holds standard metadata.
C7_Witness ==
    /\ mode = "get"
    /\ result.kind = "record"
    /\ result.rec[1].li = 1
    /\ result.rec[1].strategy = "find"
    /\ Len(paths) = 2
    /\ EggNamesAt(paths[1]) # {}
    /\ StdNamesAt(paths[2]) # {}

------------------------------------------------------------------------------
(* C8 *)

IsBlankLine(l) == \A i \in 1..Len(l) : IsSpace(l[i])

\* t is line l without the white space at its two ends
IsTrimmed(l, t) ==
    \E a, b \in 1..Len(l) :
        /\ a <= b
        /\ t = SubSeq(l, a, b)
        /\ ~IsSpace(l[a])
        /\ ~IsSpace(l[b])
        /\ \A i \in 1..Len(l) : (i < a \/ i > b) => IsSpace(l[i])

\* t is the first line of lines that is not blank, trimmed
IsTargetOf(lines, t) ==
    \E k \in 1..Len(lines) :
        /\ ~IsBlankLine(lines[k])
        /\ \A j \in 1..(k - 1) : IsBlankLine(lines[j])
        /\ IsTrimmed(lines[k], t)

\* the queries of the standard-metadata backend made for child c of
\* location l by the linked-checkout scan
LinkedQueries(l, c) ==
    {e \in 1..Len(log) :
        /\ log[e].op = "distributions"
        /\ log[e].strategy = "linked"
        /\ log[e].li = l
        /\ log[e].child = c}

\* C8: the linked-checkout scan queries the backend for an egg-link file
\* exactly when the file has a line that is not blank, once, and with the
\* first such line, trimmed, as the target; a file with none gives no
\* query, no Record and no name in _found_names, and the children after
\* it are still scanned.
C8_FirstNonBlankLineIsTarget ==
    /\ \A e \in 1..Len(log) :
          (log[e].op = "distributions" /\ log[e].strategy = "linked") =>
             LET child == ChildrenOf(paths[log[e].li])[log[e].child]
             IN  /\ child.suffix = ".egg-link"
                 /\ \E t \in {log[e].path,
                              SubSeq(log[e].path,
                                     Len(paths[log[e].li]) + 2,
                                     Len(log[e].path))} :
                       IsTargetOf(child.lines, t)
    /\ FullPass =>
          \A l \in 1..Len(paths) :
             \A c \in 1..Len(ChildrenOf(paths[l])) :
                (IsDir(paths[l])
                 /\ ChildrenOf(paths[l])[c].suffix = ".egg-link") =>
                   IF \A k \in 1..Len(ChildrenOf(paths[l])[c].lines) :
                         IsBlankLine(ChildrenOf(paths[l])[c].lines[k])
                   THEN LinkedQueries(l, c) = {}
                   ELSE Cardinality(LinkedQueries(l, c)) = 1
    /\ \A i \in 1..Len(out) :
          out[i].strategy = "linked" =>
             \E e \in 1..Len(log) :
                /\ log[e].op = "distributions"
                /\ log[e].strategy = "linked"
                /\ log[e].li = out[i].li
                /\ log[e].path = out[i].root
    /\ found_names =
          {out[i].canonical_name :
              i \in {i \in 1..Len(out) :
                        out[i].strategy \in {"find", "linked"}}}

\* A full pass over a directory whose first child is an egg-link file of
\* blank lines only and whose second child, an egg-link file too, gave a
\* Record.
C8_Witness ==
    /\ FullPass
    /\ Len(paths) = 1
    /\ Len(ChildrenOf(paths[1])) = 2
    /\ ChildrenOf(paths[1])[1].suffix = ".egg-link"
    /\ Len(ChildrenOf(paths[1])[1].lines) = MaxLines
    /\ \A k \in 1..MaxLines : IsBlankLine(ChildrenOf(paths[1])[1].lines[k])
    /\ LinkedQueries(1, 2) # {}
    /\ \E i \in 1..Len(out) : out[i].strategy = "linked"

------------------------------------------------------------------------------
(* C9 *)

\* C9: the search root the linked-checkout scan hands to the backend is
\* the target itself when the target is absolute and the location, "/" and
\* the target when it is relative; the Records of the scan are dists the
\* backend reports for that root.
C9_TargetResolvedAgainstLocation ==
    /\ \A e \in 1..Len(log) :
          (log[e].op = "distributions" /\ log[e].strategy = "linked") =>
             LET target_rel ==
                     FirstNonEmpty(
                         ChildrenOf(paths[log[e].li])[log[e].child].lines)
             IN  IF Head(target_rel) = "/"
                 THEN log[e].path = target_rel
                 ELSE log[e].path = paths[log[e].li] \o <<"/">> \o target_rel
    /\ \A i \in 1..Len(out) :
          out[i].strategy = "linked" =>
             /\ \E e \in 1..Len(log) :
                   /\ log[e].op = "distributions"
                   /\ log[e].strategy = "linked"
                   /\ log[e].li = out[i].li
                   /\ log[e].path = out[i].root
             /\ \E k \in 1..Len(StdAt(out[i].root)) :
                   /\ StdAt(out[i].root)[k].name = out[i].name
                   /\ StdAt(out[i].root)[k].info = out[i].info_location

\* A Record was yielded from the relative target of an egg-link file, and
\* another from an absolute target.
C9_Witness ==
    \E i, j \in 1..Len(out) :
        /\ out[i].strategy = "linked"
        /\ out[i].root = paths[out[i].li] \o <<"/">> \o RelTarget
        /\ out[j].strategy = "linked"
        /\ out[j].root = AbsTarget

------------------------------------------------------------------------------
(* C10 *)

\* C10: the installed location of every Record of the linked-checkout scan
\* is the location that holds the egg-link file.
C10_LinkedInstalledLocation ==
    \A i \in 1..Len(out) :
        out[i].strategy = "linked" =>
            out[i].installed_location = paths[out[i].li]

\* Two linked-checkout Records were yielded: one whose dist reports no
\* metadata directory, one whose metadata directory lies elsewhere than
\* in the location.
C10_Witness ==
    \E i, j \in 1..Len(out) :
        /\ out[i].strategy = "linked"
        /\ out[i].info_location = NoPath
        /\ out[j].strategy = "linked"
        /\ out[j].info_location # NoPath
        /\ Parent(out[j].info_location) # paths[out[j].li]


------------------------------------------------------------------------------
(* C11 *)

\* zipfile.is_zipfile accepts location l and zipimporter cannot open it
FailsToOpen(l) == IsZipFile(paths[l]) /\ ~ZipImporterOpens(paths[l])

\* C11: no call ends with ZipImportError; in a full pass, a location that
\* passes is_zipfile and that zipimporter cannot open gives no egg Record,
\* find_linked runs for it after the failed open, and every later location
\* is scanned.
C11_FailedArchiveOpenGivesNothing ==
    /\ result.kind # "ZipImportError"
    /\ FullPass =>
          \A l \in 1..Len(paths) :
             FailsToOpen(l) =>
                /\ result.kind = "exhausted"
                /\ \A i \in 1..Len(out) :
                      out[i].li = l => out[i].strategy = "find"
                /\ \E e, f \in 1..Len(log) :
                      /\ e < f
                      /\ log[e].li = l /\ log[e].op = "zipimporter"
                      /\ log[f].li = l /\ log[f].op = "is_dir"
                      /\ log[f].strategy = "linked"
                /\ \A m \in (l + 1)..Len(paths) :
                      \E e \in 1..Len(log) :
                         /\ log[e].li = m
                         /\ log[e].op = "distributions"
                         /\ log[e].strategy = "find"

\* A full pass over two locations, the first of which could not be opened
\* as an archive and the second of which gave a Record.
C11_Witness ==
    /\ FullPass
    /\ Len(paths) = 2
    /\ FailsToOpen(1)
    /\ \E i \in 1..Len(out) : out[i].li = 2


------------------------------------------------------------------------------
(* C12 *)

\* location l is something else than a directory: absent, a file, an archive
NotADirectory(l) == fs.kind[paths[l]] # "dir"

\* C12: for a location that is not a directory the linked-checkout scan
\* makes one access, the is_dir test: it lists no children, opens no file,
\* queries no backend and yields no Record; _found_names holds the names of
\* the Records of the standard-metadata and linked scans and nothing else.
C12_LinkedScanOfNonDirectoryIsNoOp ==
    /\ \A e \in 1..Len(log) :
          (log[e].strategy = "linked" /\ NotADirectory(log[e].li))
          => log[e].op = "is_dir"
    /\ \A i \in 1..Len(out) :
          out[i].strategy = "linked" => ~NotADirectory(out[i].li)
    /\ \A n \in found_names :
          \E i \in 1..Len(out) :
             /\ out[i].canonical_name = n
             /\ out[i].strategy \in {"find", "linked"}
             /\ out[i].strategy = "linked" => ~NotADirectory(out[i].li)

\* A full pass over an archive that holds standard metadata: find_linked
\* ran for it with a name in _found_names.
C12_Witness ==
    /\ FullPass
    /\ Len(paths) = 1
    /\ fs.kind[paths[1]] = "zip"
    /\ found_names # {}
    /\ \E e \in 1..Len(log) :
          log[e].strategy = "linked" /\ log[e].op = "is_dir"


------------------------------------------------------------------------------
(* C13 *)

\* s is an initial part of t
IsPrefix(s, t) == Len(s) <= Len(t) /\ SubSeq(t, 1, Len(s)) = s

\* C13: every pass starts with an empty _found_names of its own: nothing is
\* in it before the pass has yielded, and a full pass that follows another
\* call yields what that call yielded, Record for Record: the same
\* sequence after a fully consumed pass, a sequence that starts with the
\* Records the abandoned pass of a get_distribution call had yielded.
C13_PassIsolation ==
    /\ out = << >> => found_names = {}
    /\ (pass = 2 /\ FullPass) =>
          /\ IsPrefix(prev.out, out)
          /\ prev.log = SubSeq(log, 1, Len(prev.log))
          /\ prev.result.kind \in {"exhausted", "None"} => out = prev.out

\* A full pass after a get_distribution call that returned at its first
\* match: the second pass yields the same Record again, and more after it.
C13_Witness ==
    /\ pass = 2
    /\ FullPass
    /\ prev.mode = "get"
    /\ prev.result.kind = "record"
    /\ prev.out # << >>
    /\ Len(out) > Len(prev.out)
    /\ \E i \in 1..Len(prev.out) : prev.out[i].strategy \in {"find", "linked"}


------------------------------------------------------------------------------
(* C14 *)

\* how many of the first n accesses are op
CountOps(op, n) == Cardinality({e \in 1..n : log[e].op = op})

\* C14: when the consumer has stopped pulling, by exhaustion or by
\* returning at a match, no handle the pass opened is still open; and when
\* a Record of the linked scan is yielded every .egg-link file opened so
\* far has been closed.
C14_NoDanglingResources ==
    /\ pc = "done" => \A h \in open_handles : h.pass # pass
    /\ \A i \in 1..Len(out) :
          out[i].strategy = "linked"
          => CountOps("open", out[i].at) = CountOps("close", out[i].at)


------------------------------------------------------------------------------
(* C15 *)

\* the list the claim says the Environment scans
ListToScan ==
    IF made.ctor = "from_paths" /\ made.arg # << >>
    THEN made.arg[1]
    ELSE made.sys_path

\* the places in log where the standard-metadata scan of a location starts
ScanStarts ==
    {e \in 1..Len(log) :
        log[e].strategy = "find" /\ log[e].op = "distributions"}

\* C15: an Environment built by from_paths(list) keeps that list, one built
\* by from_paths(None) or default() keeps sys.path; every pass scans the
\* locations of that list and no other (the one other place touched is the
\* target an egg-link file of a location names), in the order of the list,
\* and a full pass scans each of them once.
C15_FromPathsScansGivenList ==
    /\ paths = ListToScan
    /\ \A e \in 1..Len(log) :
          /\ log[e].li \in 1..Len(ListToScan)
          /\ log[e].path # ListToScan[log[e].li]
             => log[e].strategy = "linked" /\ log[e].op = "distributions"
          /\ e > 1 => log[e - 1].li <= log[e].li
    /\ \A i \in 1..Len(out) :
          out[i].strategy # "linked" => out[i].root = ListToScan[out[i].li]
    /\ FullPass =>
          /\ Cardinality(ScanStarts) = Len(ListToScan)
          /\ \A l \in 1..Len(ListToScan) :
                \E e \in ScanStarts : log[e].li = l

\* A full pass over an Environment built by from_paths(None) while sys.path
\* holds a location: its Records come from that location.
C15_Witness ==
    /\ FullPass
    /\ made.ctor = "from_paths"
    /\ made.arg = << >>
    /\ made.sys_path # << >>
    /\ out # << >>


------------------------------------------------------------------------------
(* C16 *)

\* C16: within a pass no step removes a name from _found_names; the set
\* changes only in a step that yields a Record of the standard-metadata or
\* linked scan, and then by exactly the canonical name of that Record,
\* which was not in it; every other step, the skip of a handle whose name
\* was seen and the yield of an egg Record included, leaves it as it is.
C16_FoundNamesGrowsAtYield ==
    [][pass' = pass =>
         /\ found_names \subseteq found_names'
         /\ out' = out => found_names' = found_names
         /\ out' # out =>
               /\ out' = Append(out, out'[Len(out')])
               /\ IF out'[Len(out')].strategy \in {"find", "linked"}
                  THEN /\ out'[Len(out')].canonical_name \notin found_names
                       /\ found_names' = found_names
                             \cup {out'[Len(out')].canonical_name}
                  ELSE found_names' = found_names]_vars

\* A full pass that added two names and skipped a handle: a location
\* reports a name by standard metadata for which it got no Record.
C16_Witness ==
    /\ FullPass
    /\ Cardinality(found_names) >= 2
    /\ \E l \in 1..Len(paths) :
          \E n \in StdNamesAt(paths[l]) :
             \A i \in 1..Len(out) :
                ~(out[i].li = l /\ out[i].strategy = "find"
                  /\ out[i].canonical_name = n)


------------------------------------------------------------------------------
(* C17 *)

\* C17: a Record of the standard-metadata scan has no installed location
\* exactly when the backend reported no metadata root for its dist;
\* otherwise its installed location is the directory that holds the
\* metadata root: the root is an entry of it, named by what follows the
\* last separator.
C17_FindInstalledLocationIsParent ==
    \A i \in 1..Len(out) :
       out[i].strategy = "find" =>
          /\ out[i].installed_location = NoPath
             <=> out[i].info_location = NoPath
          /\ out[i].info_location # NoPath =>
                /\ out[i].installed_location = out[i].root
                /\ out[i].installed_location \o <<"/", "m">>
                      = out[i].info_location

\* A pass that yielded a standard-metadata Record without metadata root and
\* one with a metadata root.
C17_Witness ==
    /\ \E i \in 1..Len(out) :
          /\ out[i].strategy = "find"
          /\ out[i].info_location = NoPath
    /\ \E i \in 1..Len(out) :
          /\ out[i].strategy = "find"
          /\ out[i].info_location # NoPath
          /\ out[i].installed_location # NoPath


------------------------------------------------------------------------------
(* C18 *)

RECURSIVE FlattenEggs(_)
\* the dists of the .egg entries of the children ch, in order
FlattenEggs(ch) ==
    IF ch = << >> THEN << >>
    ELSE (IF Head(ch).suffix = ".egg" THEN Head(ch).dists ELSE << >>)
         \o FlattenEggs(Tail(ch))

\* what the legacy backend reports for location p, in order
EggDistsAt(p) ==
    IF IsDir(p) THEN FlattenEggs(ChildrenOf(p))
    ELSE IF ZipImporterOpens(p) THEN ZipEggsOf(p)
    ELSE << >>

\* the names of the egg Records yielded for location l, in order
EggRecordNames(l) ==
    LET sel == SelectSeq(out, LAMBDA r : r.li = l /\ r.strategy = "eggs")
    IN  [k \in 1..Len(sel) |-> sel[k].name]

\* the pass is inside find_eggs
InFindEggs ==
    pc \in {"eggs", "eggs_dir", "egg_dists", "eggs_zipcheck", "eggs_zip"}

------------------------------------------------------------------------------
(* C19 *)

\* the directories the egg-link files of location l name: an absolute
\* target as it is written, any other one under the location
LinkTargetsAt(l) ==
    {p \in DOMAIN fs.std :
        /\ IsDir(paths[l])
        /\ \E c \in 1..Len(ChildrenOf(paths[l])) :
              /\ ChildrenOf(paths[l])[c].suffix = ".egg-link"
              /\ \/ /\ Head(p) = "/"
                    /\ IsTargetOf(ChildrenOf(paths[l])[c].lines, p)
                 \/ /\ Len(p) > Len(paths[l]) + 1
                    /\ SubSeq(p, 1, Len(paths[l]) + 1)
                          = paths[l] \o <<"/">>
                    /\ p[Len(paths[l]) + 2] # "/"
                    /\ IsTargetOf(ChildrenOf(paths[l])[c].lines,
                                  SubSeq(p, Len(paths[l]) + 2, Len(p)))}

\* every canonical name a backend reports for location l
ReportedNamesAt(l) ==
    StdNamesAt(paths[l]) \cup EggNamesAt(paths[l])
    \cup UNION {StdNamesAt(p) : p \in LinkTargetsAt(l)}

\* the canonical names of the Records yielded so far
YieldedNames == {out[i].canonical_name : i \in 1..Len(out)}

\* C19: a full pass yields a Record for every canonical name that the
\* standard-metadata backend reports for a location or for the target of
\* one of its egg-link files, or the legacy backend for one of its eggs;
\* and a handle is skipped only when a Record of its canonical name was
\* yielded before in the pass.
C19_NoNameIsLost ==
    /\ [](FullPass =>
            \A l \in 1..Len(paths) : ReportedNamesAt(l) \subseteq YieldedNames)
    /\ [][(/\ pc \in {"find_impl", "linked_impl"}
           /\ cur # << >>
           /\ cur' = Tail(cur)
           /\ out' = out)
          => canonicalize_name(Head(cur).name) \in YieldedNames]_vars

\* A full pass over a location with an egg-link file whose absolute target
\* reports three dists, two of one canonical name: the linked scan yielded
\* for it and skipped a handle.
C19_Witness ==
    /\ FullPass
    /\ \E l \in 1..Len(paths) :
          /\ AbsTarget \in LinkTargetsAt(l)
          /\ \E i \in 1..Len(out) :
                /\ out[i].strategy = "linked"
                /\ out[i].li = l
                /\ out[i].root = AbsTarget
          /\ Cardinality({i \in 1..Len(out) :
                             out[i].strategy = "linked" /\ out[i].li = l})
                < Len(StdAt(AbsTarget))

====
